---- MODULE Spec2Model ----
(***************************************************************************)
(* SlimIO/TimeMap (index.js): a Map whose entries live for timeLife        *)
(* milliseconds.  One setTimeout handle is kept in this[SymInterval] for   *)
(* the key kept in this[SymCurrKey]; checkInterval re-schedules it.        *)
(*                                                                         *)
(* The TimeMap object and the pending timers of the event loop are packed  *)
(* in a record m = [curr, currKey, interval, timers, emitted, fate,        *)
(* listener] that the operators set, delete, has, get, clear,              *)
(* checkInterval transform as the methods of index.js do; emit runs the    *)
(* "expiration" listener, if any, as EventEmitter does.  Time is in        *)
(* milliseconds.  timeLifeMs, lastCall, lastSet, order, emitted and fate   *)
(* are history variables.                                                  *)
(***************************************************************************)
EXTENDS Integers, Sequences, FiniteSets, TLC

\* ---------------------------------------------------------------- bounds
MaxTicks == 5           \* the clock stops after that many ticks
TickMs == 100           \* milliseconds in a tick of the clock
MaxTimers == 2          \* pending timers of the event loop

\* ------------------------------------------------------ program constants
Slack == 200            \* index.js:71  (timeLife - deltaTime) + 200
DEFAULT_TIMELIFE_MS == 1000      \* index.js:296

\* the timeLifeMs the store is constructed with: two ticks, so that a key can
\* be refreshed strictly between its insertion and its deadline
TimeLifeArg == 2 * TickMs

Null == "null"
Undefined == "undefined"
Keys == {"foo", "hello"}
Values == {"bar"}
OverwriteValues == {"bar", "woo!"}

\* keys of the other kinds: Symbol("foo"), the number 10, and two values that
\* are no key (null, undefined)
SymFoo == "Symbol(foo)"
NumKey == "10"
KindKeys == {"foo", SymFoo, NumKey}
BadKeys == {Null, Undefined}
AllKeys == Keys \cup KindKeys

\* typeof key
typeOf(key) ==
    CASE key = Null -> "object"
      [] key = Undefined -> "undefined"
      [] key = SymFoo -> "symbol"
      [] key = NumKey -> "number"
      [] OTHER -> "string"

\* what a call throws
TypeErrorKey == "TypeError: key must be a string, a symbol or a number"
TypeErrorTimeLife == "TypeError: timeLifeMs must be a number"
ErrorUnknownKey == "Error: Unknown key"

\* assertKey that lets through strings and symbols only
assertKey_noNumber(key) == typeOf(key) \in {"string", "symbol"}

\* assertKey(key) returns (TRUE) or throws a TypeError (FALSE)
assertKey(key) == typeOf(key) \in {"string", "symbol", "number"}
Fates == {"none", "set", "deleted", "cleared", "notified"}

VARIABLES
    curr,       \* TimeStore.get(this): sequence of [key, value, ts], insertion order
    currKey,    \* this[SymCurrKey]
    interval,   \* this[SymInterval]: Null or a Timeout object
    timeLife,   \* this[SymTime]
    timers,     \* event loop: pending (not fired, not cleared) timeouts, oldest first
    now,        \* Date.now()
    emitted,    \* "expiration" events emitted by the last step, in order
    fate,       \* per key: what happened last to it (history)
    timeLifeMs, \* the argument the constructor was called with (history)
    lastCall,   \* the last call of a method and what it returned or threw (history)
    lastSet,    \* per key: the value of the last set(key, value) (history)
    order,      \* the keys whose fate is "set", in the order of the set that
                \* inserted them (history)
    listener    \* the listener registered with on("expiration", ...)

vars == <<curr, currKey, interval, timeLife, timers, now, emitted, fate,
          timeLifeMs, lastCall, lastSet, order, listener>>

\* ------------------------------------------------------------ Map helpers
RECURSIVE IndexOf(_, _)
IndexOf(seq, key) ==
    IF seq = <<>> THEN 0
    ELSE IF seq[Len(seq)].key = key /\ IndexOf(SubSeq(seq, 1, Len(seq) - 1), key) = 0
         THEN Len(seq)
         ELSE IndexOf(SubSeq(seq, 1, Len(seq) - 1), key)

MapHas(seq, key) == IndexOf(seq, key) # 0

MapGet(seq, key) == seq[IndexOf(seq, key)]

\* a set that moves an existing key to the end
MapSet_moveToEnd(seq, key, value, ts) ==
    LET i == IndexOf(seq, key)
        rest == IF i = 0 THEN seq
                ELSE SubSeq(seq, 1, i - 1) \o SubSeq(seq, i + 1, Len(seq))
    IN Append(rest, [key |-> key, value |-> value, ts |-> ts])

\* a set that keeps the value of an existing key
MapSet_keepValue(seq, key, value, ts) ==
    IF MapHas(seq, key) THEN [seq EXCEPT ![IndexOf(seq, key)].ts = ts]
    ELSE Append(seq, [key |-> key, value |-> value, ts |-> ts])

\* Map.prototype.set: an existing key keeps its position, a new one is appended
MapSet(seq, key, value, ts) ==
    LET e == [key |-> key, value |-> value, ts |-> ts]
    IN IF MapHas(seq, key) THEN [seq EXCEPT ![IndexOf(seq, key)] = e]
       ELSE Append(seq, e)

MapDelete(seq, key) ==
    LET i == IndexOf(seq, key)
    IN IF i = 0 THEN seq
       ELSE SubSeq(seq, 1, i - 1) \o SubSeq(seq, i + 1, Len(seq))

MapKeys(seq) == [i \in 1..Len(seq) |-> seq[i].key]

KeySet(seq) == {seq[i].key : i \in 1..Len(seq)}

\* Array.prototype.sort((left, right) => right.ts - left.ts): stable, descending ts
RECURSIVE InsertDesc(_, _)
InsertDesc(sorted, e) ==
    IF sorted = <<>> THEN <<e>>
    ELSE IF sorted[Len(sorted)].ts >= e.ts THEN Append(sorted, e)
         ELSE Append(InsertDesc(SubSeq(sorted, 1, Len(sorted) - 1), e), sorted[Len(sorted)])

RECURSIVE SortDesc(_)
SortDesc(seq) ==
    IF seq = <<>> THEN <<>>
    ELSE InsertDesc(SortDesc(SubSeq(seq, 1, Len(seq) - 1)), seq[Len(seq)])

\* ------------------------------------------------------ event-loop timers
\* timers is the list of the pending timeouts in the order of their creation.
\* this[SymInterval] is Null or a Timeout object; the pending timeout it
\* designates, if that one has neither fired nor been cleared, carries ref.
Timeout == "Timeout"

Unref(ts) == [i \in 1..Len(ts) |-> [ts[i] EXCEPT !.ref = FALSE]]

Without(ts, i) == SubSeq(ts, 1, i - 1) \o SubSeq(ts, i + 1, Len(ts))

RECURSIVE Unreferenced(_)
Unreferenced(ts) ==
    IF ts = <<>> THEN <<>>
    ELSE IF ts[1].ref THEN Unreferenced(Tail(ts))
         ELSE <<ts[1]>> \o Unreferenced(Tail(ts))

\* this[SymInterval] = setTimeout(() => { emit("expiration", key, value);
\*                                        delete(key) }, delay)
setTimeout(m, key, value, delay) ==
    [m EXCEPT !.interval = Timeout,
              !.timers = Append(Unref(@), [key |-> key, value |-> value,
                                           due |-> now + delay, delay |-> delay,
                                           ref |-> TRUE])]

\* clearTimeout(this[SymInterval]): a fired or cleared Timeout is ignored
clearTimeout(m) ==
    [m EXCEPT !.timers = Unreferenced(@)]

\* ------------------------------------------------------------------ emit
\* A listener of "expiration" is a record: on the expiration of the key "on"
\* (of any key when "on" is Null) it calls delete(key).  No listener: key Null.
NoListener == [on |-> Null, key |-> Null]

\* map.on("expiration", () => map.delete("hello")), and a listener that
\* deletes "hello" on the expiration of one key only
Listeners == {[on |-> Null, key |-> "hello"], [on |-> NumKey, key |-> "hello"]}

RECURSIVE checkInterval(_), delete(_, _), sweep(_, _), emit(_, _, _)

\* timeMap.emit("expiration", key, value): the event is recorded together
\* with what the store holds for the key at that moment; the listener, if
\* one is registered and it acts on this key, runs before emit returns
emit(m, key, value) ==
    LET present == MapHas(m.curr, key)
        ev == [key |-> key, value |-> value, at |-> now,
               present |-> present,
               ts |-> IF present THEN MapGet(m.curr, key).ts ELSE -1,
               stored |-> IF present THEN MapGet(m.curr, key).value ELSE Null,
               fate |-> m.fate[key]]
        m1 == [m EXCEPT !.emitted = Append(@, ev), !.fate[key] = "notified"]
    IN IF m.listener.key # Null /\ m.listener.on \in {Null, key}
       THEN IF MapHas(m1.curr, m.listener.key)
            THEN [delete(m1, m.listener.key) EXCEPT !.fate[m.listener.key] = "deleted"]
            ELSE delete(m1, m.listener.key)
       ELSE m1

\* ------------------------------------------- checkInterval and delete

\* the while loop of checkInterval over sortedElements (pop takes the last)
sweep(m, sortedElements) ==
    IF sortedElements = <<>> THEN m
    ELSE LET elem == sortedElements[Len(sortedElements)]
             rest == SubSeq(sortedElements, 1, Len(sortedElements) - 1)
             deltaTime == now - elem.ts
         IN IF deltaTime >= timeLife
            THEN sweep(delete(emit(m, elem.key, elem.value), elem.key), rest)
            ELSE setTimeout([m EXCEPT !.currKey = elem.key],
                            elem.key, elem.value, (timeLife - deltaTime) + Slack)

\* checkInterval that does not sort the entries
checkInterval_unsorted(m) ==
    LET m0 == [m EXCEPT !.interval = Null, !.currKey = Null, !.timers = Unref(@)]
    IN IF Len(m0.curr) = 0 THEN m0
       ELSE sweep(m0, m0.curr)

checkInterval(m) ==
    LET m0 == [m EXCEPT !.interval = Null, !.currKey = Null, !.timers = Unref(@)]
    IN IF Len(m0.curr) = 0 THEN m0
       ELSE sweep(m0, SortDesc(m0.curr))

\* delete that does not run checkInterval after removing the current key
delete_noCheckInterval(m, key) ==
    IF m.currKey = key
    THEN [clearTimeout(m) EXCEPT !.curr = MapDelete(@, key)]
    ELSE [m EXCEPT !.curr = MapDelete(@, key)]

delete(m, key) ==
    IF m.currKey = key
    THEN checkInterval([clearTimeout(m) EXCEPT !.curr = MapDelete(@, key)])
    ELSE [m EXCEPT !.curr = MapDelete(@, key)]

\* -------------------------------------------------------------------- set
\* set that re-arms on the current key without clearTimeout(this[SymInterval])
set_noClearTimeout(m, key, value) ==
    LET m2 == IF m.currKey = key \/ m.interval = Null
              THEN setTimeout([m EXCEPT !.currKey = key], key, value, timeLife)
              ELSE m
    IN [m2 EXCEPT !.curr = MapSet(@, key, value, now)]

set(m, key, value) ==
    LET isCurrKey == m.currKey = key
        m1 == IF isCurrKey THEN clearTimeout(m) ELSE [m EXCEPT !.currKey = key]
        m2 == IF isCurrKey \/ m.interval = Null
              THEN setTimeout(m1, key, value, timeLife)
              ELSE m
    IN [m2 EXCEPT !.curr = MapSet(@, key, value, now)]

\* -------------------------------------------------------------- has / get
\* refresh that runs checkInterval whatever the key
refresh_alwaysCheck(m, key) ==
    checkInterval([m EXCEPT !.curr[IndexOf(m.curr, key)].ts = now])

refresh(m, key) ==
    LET m1 == [m EXCEPT !.curr[IndexOf(m.curr, key)].ts = now]
    IN IF m1.currKey = key THEN checkInterval(m1) ELSE m1

has(m, key, refreshTimestamp) ==
    IF MapHas(m.curr, key) /\ refreshTimestamp THEN refresh(m, key) ELSE m

\* what has returns
hasResult(m, key) == IF MapHas(m.curr, key) THEN "true" ELSE "false"

\* get that checks its key with assertKey first
getResult_assertKey(m, key) ==
    IF ~assertKey(key) THEN TypeErrorKey
    ELSE IF MapHas(m.curr, key) THEN MapGet(m.curr, key).value ELSE ErrorUnknownKey

\* what get returns (currO.value) or throws
getResult(m, key) ==
    IF MapHas(m.curr, key) THEN MapGet(m.curr, key).value ELSE ErrorUnknownKey

get(m, key, refreshTimestamp) ==
    IF refreshTimestamp THEN refresh(m, key) ELSE m

\* ------------------------------------------------------------ keys, size
\* what keys() enumerates
keys(m) == MapKeys(m.curr)

\* the getter size
size(m) == Len(m.curr)

\* ------------------------------------------------------------------ clear
\* clear that keeps the Map of the entries
clear_keepStore(m) ==
    LET m1 == IF m.interval # Null THEN clearTimeout(m) ELSE m
    IN [m1 EXCEPT !.currKey = Null]

clear(m) ==
    LET m1 == IF m.interval # Null THEN clearTimeout(m) ELSE m
    IN [m1 EXCEPT !.currKey = Null, !.curr = <<>>]

\* ------------------------------------------------------------ constructor
\* the arguments of new TimeMap(...): a number, nothing, null, a string
NumberArg(n) == [type |-> "number", val |-> n]
NoArg == [type |-> "undefined", val |-> 0]
NullArg == [type |-> "object", val |-> 0]
StringArg == [type |-> "string", val |-> 0]
CtorArgs == {NumberArg(TimeLifeArg), NoArg, NullArg, StringArg}

\* a constructor without the default value of its parameter
constructor_noDefault(arg) ==
    IF arg.type # "number"
    THEN [threw |-> TRUE, ret |-> TypeErrorTimeLife, timeLife |-> 0]
    ELSE [threw |-> FALSE, ret |-> "TimeMap", timeLife |-> arg.val]

\* constructor(timeLifeMs = TimeMap.DEFAULT_TIMELIFE_MS)
constructor(arg) ==
    LET param == IF arg.type = "undefined" THEN NumberArg(DEFAULT_TIMELIFE_MS) ELSE arg
    IN IF param.type # "number"
       THEN [threw |-> TRUE, ret |-> TypeErrorTimeLife, timeLife |-> 0]
       ELSE [threw |-> FALSE, ret |-> "TimeMap", timeLife |-> param.val]

\* ---------------------------------------------------------------- actions
Self ==
    [curr |-> curr, currKey |-> currKey, interval |-> interval,
     timers |-> timers, emitted |-> <<>>, fate |-> fate, listener |-> listener]

\* the keys of seq that f still has as "set"
Live(seq, f) == SelectSeq(seq, LAMBDA k : f[k] = "set")

\* a call, what it returned or threw, and whether its key was this[SymCurrKey]
Call(op, key, ret) ==
    [op |-> op, key |-> key, ret |-> ret, isCurrKey |-> key # Null /\ currKey = key]

NoCall == Call("none", Null, Undefined)

\* the state after new TimeMap(arg); when the constructor throws there is no
\* TimeMap, and no method is ever called
New(arg) ==
    /\ curr = <<>>
    /\ currKey = Null
    /\ interval = Null
    /\ timeLife = constructor(arg).timeLife
    /\ timers = <<>>
    /\ now = 0
    /\ emitted = <<>>
    /\ fate = [k \in AllKeys |-> "none"]
    /\ timeLifeMs = arg
    /\ lastCall = Call("new", Null, constructor(arg).ret)
    /\ lastSet = [k \in AllKeys |-> Null]
    /\ order = <<>>
    /\ listener = NoListener

Constructed == ~(lastCall.op = "new" /\ lastCall.ret = TypeErrorTimeLife)

\* the state after new TimeMap(timeLifeMs)
Init == New(NumberArg(TimeLifeArg))

\* Every call below is taken only if it leaves at most MaxTimers timeouts pending.
CallSet(key, value) ==
    /\ LET ok == assertKey(key)
           m == IF ok THEN [set(Self, key, value) EXCEPT !.fate[key] = "set"] ELSE Self
       IN /\ Len(m.timers) <= MaxTimers
          /\ curr' = m.curr
          /\ currKey' = m.currKey
          /\ interval' = m.interval
          /\ timers' = m.timers
          /\ emitted' = m.emitted
          /\ fate' = m.fate
          /\ lastCall' = Call("set", key, IF ok THEN Undefined ELSE TypeErrorKey)
          /\ lastSet' = IF ok THEN [lastSet EXCEPT ![key] = value] ELSE lastSet
          /\ order' = IF ok /\ fate[key] # "set" THEN Append(order, key) ELSE order
          /\ UNCHANGED <<timeLife, timeLifeMs, now, listener>>

CallDelete(key) ==
    /\ LET ok == assertKey(key)
           m == IF ~ok THEN Self
                ELSE IF MapHas(curr, key)
                     THEN [delete(Self, key) EXCEPT !.fate[key] = "deleted"]
                     ELSE delete(Self, key)
       IN /\ Len(m.timers) <= MaxTimers
          /\ curr' = m.curr
          /\ currKey' = m.currKey
          /\ interval' = m.interval
          /\ timers' = m.timers
          /\ emitted' = m.emitted
          /\ fate' = m.fate
          /\ lastCall' = Call("delete", key, IF ok THEN Undefined ELSE TypeErrorKey)
          /\ order' = Live(order, m.fate)
          /\ UNCHANGED <<timeLife, timeLifeMs, now, lastSet, listener>>

CallHas(key, refreshTimestamp) ==
    /\ LET m == has(Self, key, refreshTimestamp)
       IN /\ Len(m.timers) <= MaxTimers
          /\ curr' = m.curr
          /\ currKey' = m.currKey
          /\ interval' = m.interval
          /\ timers' = m.timers
          /\ emitted' = m.emitted
          /\ fate' = m.fate
          /\ lastCall' = Call("has", key, hasResult(Self, key))
          /\ order' = Live(order, m.fate)
          /\ UNCHANGED <<timeLife, timeLifeMs, now, lastSet, listener>>

\* get on an absent key throws before anything is changed
CallGet(key, refreshTimestamp) ==
    /\ LET found == MapHas(curr, key)
           m == IF found THEN get(Self, key, refreshTimestamp) ELSE Self
       IN /\ Len(m.timers) <= MaxTimers
          /\ curr' = m.curr
          /\ currKey' = m.currKey
          /\ interval' = m.interval
          /\ timers' = m.timers
          /\ emitted' = m.emitted
          /\ fate' = m.fate
          /\ lastCall' = Call("get", key, getResult(Self, key))
          /\ order' = Live(order, m.fate)
          /\ UNCHANGED <<timeLife, timeLifeMs, now, lastSet, listener>>

CallClear ==
    /\ LET m == [clear(Self) EXCEPT !.fate = [k \in AllKeys |->
                    IF MapHas(curr, k) THEN "cleared" ELSE fate[k]]]
       IN /\ Len(m.timers) <= MaxTimers
          /\ curr' = m.curr
          /\ currKey' = m.currKey
          /\ interval' = m.interval
          /\ timers' = m.timers
          /\ emitted' = m.emitted
          /\ fate' = m.fate
          /\ lastCall' = Call("clear", Null, Undefined)
          /\ order' = Live(order, m.fate)
          /\ UNCHANGED <<timeLife, timeLifeMs, now, lastSet, listener>>

\* keys() returns an iterator over the keys, the getter size a number;
\* neither assigns anything
CallKeys ==
    /\ lastCall' = Call("keys", Null, "IterableIterator")
    /\ emitted' = <<>>
    /\ UNCHANGED <<curr, currKey, interval, timeLife, timers, now, fate, timeLifeMs,
                   lastSet, order, listener>>

CallSize ==
    /\ lastCall' = Call("size", Null, "number")
    /\ emitted' = <<>>
    /\ UNCHANGED <<curr, currKey, interval, timeLife, timers, now, fate, timeLifeMs,
                   lastSet, order, listener>>

\* The event loop runs the callback of the pending timeout that is due first;
\* of two timeouts created with the same delay the older one is due first.
TimerFire(i) ==
    /\ i \in 1..Len(timers)
    /\ timers[i].due <= now
    /\ \A j \in 1..Len(timers) : timers[i].due <= timers[j].due
    /\ \A j \in 1..(i - 1) :
          ~(timers[j].due = timers[i].due /\ timers[j].delay = timers[i].delay)
    /\ LET m == delete(emit([Self EXCEPT !.timers = Without(@, i)],
                            timers[i].key, timers[i].value), timers[i].key)
       IN /\ Len(m.timers) <= MaxTimers
          /\ curr' = m.curr
          /\ currKey' = m.currKey
          /\ interval' = m.interval
          /\ timers' = m.timers
          /\ emitted' = m.emitted
          /\ fate' = m.fate
          /\ lastCall' = NoCall
          /\ order' = Live(order, m.fate)
          /\ UNCHANGED <<timeLife, timeLifeMs, now, lastSet, listener>>

\* map.on("expiration", l), once
CallOn(l) ==
    /\ listener = NoListener
    /\ listener' = l
    /\ emitted' = <<>>
    /\ lastCall' = Call("on", Null, Undefined)
    /\ UNCHANGED <<curr, currKey, interval, timeLife, timers, now, fate, timeLifeMs,
                   lastSet, order>>

\* time passes; a timeout that is due runs before the clock moves on
Tick ==
    /\ now + TickMs <= MaxTicks * TickMs
    /\ \A i \in 1..Len(timers) : timers[i].due > now
    /\ now' = now + TickMs
    /\ emitted' = <<>>
    /\ lastCall' = NoCall
    /\ UNCHANGED <<curr, currKey, interval, timeLife, timers, fate, timeLifeMs,
                   lastSet, order, listener>>

Set == \E key \in Keys, value \in Values : CallSet(key, value)
Delete == \E key \in Keys : CallDelete(key)
\* has and get with refreshTimestamp; without it they change nothing in the
\* store and are left to the specifications of the lookups (GetSpec, KindsSpec)
Has == \E key \in Keys : CallHas(key, TRUE)
Get == \E key \in Keys : CallGet(key, TRUE)
PlainGet == \E key \in Keys : CallGet(key, FALSE)
PlainHas == \E key \in Keys : CallHas(key, FALSE)
Fire == \E i \in 1..Len(timers) : TimerFire(i)

Next == Set \/ Delete \/ Has \/ Get \/ CallClear \/ Fire \/ Tick

Spec == Init /\ [][Next]_vars

TypeOK ==
    /\ currKey \in AllKeys \cup {Null}
    /\ interval \in {Timeout, Null}
    /\ \A i, j \in 1..Len(timers) : timers[i].ref /\ timers[j].ref => i = j
    /\ \A i \in 1..Len(timers) : timers[i].ref => interval = Timeout
    /\ now \in 0..(MaxTicks * TickMs)
    /\ Len(timers) <= MaxTimers
    /\ \A k \in AllKeys : fate[k] \in Fates

\* the calls that arm and disarm the timer, the timers and the clock
NextFair == Set \/ CallClear \/ Fire \/ Tick

\* the timers run when they are due and the clock goes on
FairSpec == Init /\ [][NextFair]_vars /\ WF_vars(Tick) /\ WF_vars(Fire)

\* set with two values, has and get with refreshTimestamp, timers and the clock
Overwrite == \E key \in Keys, value \in OverwriteValues : CallSet(key, value)

NextOverwrite == Overwrite \/ Has \/ Get \/ Fire \/ Tick

OverwriteSpec == Init /\ [][NextOverwrite]_vars

\* set with two values, delete and get, made one after the other before the
\* clock moves
NextGet == Overwrite \/ Delete \/ Get \/ PlainGet

GetSpec == Init /\ [][NextGet]_vars

\* the calls that take a key, with keys of every kind and values that are
\* no key, made one after the other before the clock moves
SetKinds == \E key \in KindKeys \cup BadKeys, value \in Values : CallSet(key, value)
DeleteKinds == \E key \in KindKeys \cup BadKeys : CallDelete(key)
HasKinds == \E key \in KindKeys \cup BadKeys, r \in BOOLEAN : CallHas(key, r)
GetKinds == \E key \in KindKeys \cup BadKeys, r \in BOOLEAN : CallGet(key, r)

NextKinds == SetKinds \/ DeleteKinds \/ HasKinds \/ GetKinds

KindsSpec == Init /\ [][NextKinds]_vars

\* the store constructed with any argument, and the calls of its methods
\* made one after the other before the clock moves; nothing follows a
\* constructor that threw
InitCtor == \E arg \in CtorArgs : New(arg)

NextCtor == Constructed /\ (Set \/ Delete \/ Has \/ Get \/ CallClear)

CtorSpec == InitCtor /\ [][NextCtor]_vars

\* set, delete, clear, keys and size, the timers and the clock
NextKeys == Set \/ Delete \/ CallClear \/ CallKeys \/ CallSize \/ Fire \/ Tick

KeysSpec == Init /\ [][NextKeys]_vars

\* three keys: set, delete, the timers and the clock
SetThree == \E key \in KindKeys, value \in Values : CallSet(key, value)
DeleteThree == \E key \in KindKeys : CallDelete(key)

NextSweep == SetThree \/ DeleteThree \/ Fire \/ Tick

SweepSpec == Init /\ [][NextSweep]_vars

\* only set calls and timer firings
\* set, lookups with and without refreshTimestamp, and the clock
NextLookup == Set \/ Has \/ PlainHas \/ Get \/ PlainGet \/ Fire \/ Tick

LookupSpec == Init /\ [][NextLookup]_vars

\* three keys, one of them the key the listener deletes, and a listener
ListenerKeys == {"foo", "hello", NumKey}
On == \E l \in Listeners : CallOn(l)
SetListened == \E key \in ListenerKeys, value \in Values : CallSet(key, value)
DeleteListened == \E key \in ListenerKeys : CallDelete(key)
NextListener == On \/ SetListened \/ DeleteListened \/ Fire \/ Tick

ListenerSpec == Init /\ [][NextListener]_vars

NextSetOnly == Set \/ Fire \/ Tick

SetOnlySpec == Init /\ [][NextSetOnly]_vars

\* ----------------------------------------------------------------- claims
Entry(key, ts) == MapHas(curr, key) /\ MapGet(curr, key).ts = ts

FreshStore == curr = <<>> /\ currKey = Null /\ interval = Null

\* C1: when currentKey is set it names an entry of the store whose lastTouched
\* is the smallest among all entries.
C1_CurrentKeyIsOldest ==
    currKey # Null =>
        /\ MapHas(curr, currKey)
        /\ \A i \in 1..Len(curr) : MapGet(curr, currKey).ts <= curr[i].ts

\* C2: an expiration is never emitted for an entry before lastTouched + timeLife.
C2_NoEarlyEviction ==
    \A i \in 1..Len(emitted) :
        emitted[i].present => emitted[i].at >= emitted[i].ts + timeLife

\* an entry past its deadline that no pending timer can expire
Stranded(key) ==
    /\ MapHas(curr, key)
    /\ MapGet(curr, key).ts + timeLife <= now
    /\ timers = <<>>

\* C3: an entry set at time T and left alone afterwards eventually expires.
\* With the timers firing and the clock going on, no key stays in the store
\* for ever past its deadline T + timeLife while no timer is pending (an entry
\* that is touched again gets a later deadline, so a key that stays stranded
\* is one that is left alone).
C3_EventualExpiration ==
    \A key \in Keys : []<>~Stranded(key)

\* C4: between two set of a key at most one expiration is emitted for it.
C4_AtMostOnce ==
    \A i \in 1..Len(emitted) : emitted[i].fate # "notified"

\* C5: no expiration is emitted for a key after delete(key) removed it,
\* unless it was set again.
C5_NoExpirationAfterDelete ==
    \A i \in 1..Len(emitted) : emitted[i].fate # "deleted"

\* C6: no expiration is emitted for an entry that clear() discarded, unless
\* the key was set again.
C6_NoExpirationAfterClear ==
    \A i \in 1..Len(emitted) : emitted[i].fate # "cleared"

\* C7: clear() leaves the state of a freshly constructed store: no entry,
\* no current key, no active timer.
C7_ClearResets == [][CallClear => FreshStore']_vars

\* C8: the active timer handle is set if and only if currentKey is set.
C8_TimerIffCurrentKey == (interval # Null) <=> (currKey # Null)

\* C9: at most one non-cancelled timer is pending at any time.
C9_SingleTimer == Len(timers) <= 1

\* C10: with set calls and timer firings only, at most one timer is
\* outstanding at any time.
C10_SingleTimerSetOnly ==
    \A i, j \in 1..Len(timers) : i = j

\* C10 witness: the current key was set again while an older entry exists,
\* and one timer is pending, due a full timeLife from now.
C10_Witness ==
    /\ Len(curr) = 2
    /\ currKey # Null
    /\ Entry(currKey, now)
    /\ \E i \in 1..2 : curr[i].ts < now
    /\ Len(timers) = 1
    /\ timers[1].key = currKey /\ timers[1].due = now + timeLife

\* the entries of seq that are not yet due
NotDue(seq) == {i \in 1..Len(seq) : now - seq[i].ts < timeLife}

\* the timeout this[SymInterval] designates is pending for key
Armed(ts, key) == \E i \in 1..Len(ts) : ts[i].ref /\ ts[i].key = key

\* C11: delete(key) always removes key. If key was the current key, its timer
\* is cancelled and the remaining entry that is not yet due and has the
\* smallest lastTouched becomes the current key with a timer armed for it, or
\* there is no timer and no current key if no entry remains; if key was not
\* the current key, the current key and the timers are left as they were.
C11_DeleteFrame ==
    [][\A key \in Keys : CallDelete(key) =>
        LET rest == MapDelete(curr, key)
        IN /\ ~MapHas(curr', key)
           /\ currKey # key =>
                 /\ curr' = rest
                 /\ currKey' = currKey /\ interval' = interval /\ timers' = timers
           /\ currKey = key =>
                 /\ Unreferenced(timers') = Unreferenced(timers)
                 /\ KeySet(curr') = {rest[i].key : i \in NotDue(rest)}
                 /\ IF curr' = <<>>
                    THEN currKey' = Null /\ interval' = Null
                         /\ \A i \in 1..Len(timers') : ~timers'[i].ref
                    ELSE /\ MapHas(curr', currKey') /\ Armed(timers', currKey')
                         /\ \A i \in 1..Len(curr') :
                               MapGet(curr', currKey').ts <= curr'[i].ts
      ]_vars

\* C11 witness: delete has just removed the current key and the scheduler
\* has re-armed for the entry that remains.
C11_Witness ==
    /\ lastCall.op = "delete" /\ lastCall.isCurrKey
    /\ fate[lastCall.key] = "deleted"
    /\ currKey # Null /\ currKey # lastCall.key
    /\ Armed(timers, currKey)
\* C12: whenever an expiration (key, value) is emitted, the key is still in
\* the store at that moment: it is removed only after the emit.
C12_PresentWhenNotified ==
    \A i \in 1..Len(emitted) : emitted[i].present

\* C13: set on an existing key overwrites its value and resets its
\* lastTouched to now, and every expiration emitted for a key of the store
\* carries the value the store holds for that key at that moment.
C13_NotifiedValueIsStored ==
    /\ lastCall.op = "set" /\ lastCall.ret = Undefined =>
          /\ Entry(lastCall.key, now)
          /\ MapGet(curr, lastCall.key).value = lastSet[lastCall.key]
    /\ \A i \in 1..Len(emitted) :
          emitted[i].present => emitted[i].value = emitted[i].stored

\* the store and its schedule are as they were before the step
StoreUnchanged == UNCHANGED <<curr, currKey, interval, timers>>

C15_LookupValidation ==
    lastCall.op \in {"has", "get"} /\ lastCall.key \in BadKeys
        => lastCall.ret = TypeErrorKey

\* C15 as the code has it: has and get do not check the kind of their key.
\* With a key that is neither a string, a symbol nor a number has returns
\* false and get throws the Error of an unknown key, with or without
\* refreshTimestamp, and the store and its schedule are as they were.
C15_LookupNoValidation ==
    [][\A key \in BadKeys, r \in BOOLEAN :
         /\ CallHas(key, r) => lastCall'.ret = "false" /\ StoreUnchanged
         /\ CallGet(key, r) => lastCall'.ret = ErrorUnknownKey /\ StoreUnchanged
      ]_vars

\* C15 witness: get(null) has just thrown on a store that holds entries.
C15_Witness ==
    /\ curr # <<>>
    /\ lastCall.op = "get" /\ lastCall.key = Null /\ lastCall.ret = ErrorUnknownKey

C17_FirstKeyArmsTimer ==
    [][\A key \in Keys, value \in Values :
         curr = <<>> /\ CallSet(key, value) =>
            /\ currKey' = key
            /\ \E i \in 1..Len(timers') :
                  /\ timers'[i].ref /\ timers'[i].key = key
                  /\ timers'[i].due = now + timeLife
      ]_vars

\* C18: new TimeMap(x) with x not a number throws the TypeError; without
\* argument timeLife is 1000; with a number timeLife is that number; and
\* timeLife has that value in every reachable state.
C18_TimeLife ==
    /\ timeLifeMs.type \notin {"number", "undefined"} =>
          lastCall = Call("new", Null, TypeErrorTimeLife)
    /\ timeLifeMs.type = "undefined" => Constructed /\ timeLife = 1000
    /\ timeLifeMs.type = "number" => Constructed /\ timeLife = timeLifeMs.val

\* C18 witness: a store constructed without argument, after calls that left
\* two entries and a timer due in 1000 ms.
C18_Witness ==
    /\ timeLifeMs = NoArg /\ timeLife = 1000
    /\ Len(curr) = 2
    /\ \E i \in 1..Len(timers) : timers[i].due = now + 1000

\* C19: keys() enumerates exactly the keys of the store in the order of their
\* insertion, a key that is set again keeping its place; size is the number
\* of those keys; and neither keys() nor size changes the entries, the
\* current key or the timers.
C19_KeysInInsertionOrder ==
    [][/\ keys(Self)' = order'
       /\ size(Self)' = Cardinality({k \in AllKeys : fate'[k] = "set"})
       /\ CallKeys \/ CallSize => StoreUnchanged
      ]_vars

\* C19 witness: keys() has just been called on a store whose first key was
\* set again after the second one was inserted.
C19_Witness ==
    /\ lastCall.op = "keys"
    /\ Len(curr) = 2 /\ curr[1].ts > curr[2].ts

\* C20: after clear() size is 0 and has(key) is false for every key, as on a
\* store just constructed, and a second clear() changes nothing more.
C20_ClearQueries ==
    lastCall.op = "clear" =>
        /\ size(Self) = 0
        /\ \A key \in AllKeys \cup BadKeys : hasResult(Self, key) = "false"
        /\ clear(Self) = Self

\* C20 witness: clear() has just discarded two entries and cancelled the
\* timer.
C20_Witness ==
    /\ lastCall.op = "clear"
    /\ \A key \in Keys : fate[key] = "cleared"
    /\ interval = Timeout

\* C21: the timer armed for an entry is due at lastTouched + timeLife of that
\* entry: checkInterval arms it with the remaining lifetime
\* timeLife - (now - lastTouched) and nothing more.
C21_RearmDelay ==
    \A i \in 1..Len(timers) :
        timers[i].ref /\ MapHas(curr, timers[i].key) =>
            timers[i].due = MapGet(curr, timers[i].key).ts + timeLife

\* C22: the callback of a timer that this[SymInterval] no longer designates
\* (its key was refreshed, re-armed, deleted or cleared since) does nothing:
\* it emits no expiration, deletes no entry and changes neither the current
\* key nor the active timer.
C22_StaleTimerNoOp ==
    [][\A i \in 1..Len(timers) :
         TimerFire(i) /\ ~timers[i].ref =>
            /\ emitted' = <<>>
            /\ curr' = curr
            /\ currKey' = currKey /\ interval' = interval
            /\ timers' = Without(timers, i)
      ]_vars

\* checkInterval has run on the store before and emitted the events ev: the
\* entries of before that are due are the keys of ev, each once, in
\* ascending order of lastTouched and each still stored when emitted; the
\* entries left are those not due; the one of smallest lastTouched is the
\* current key with the timer armed for it, or nothing is armed if none is left.
Swept(before, ev) ==
    /\ Len(ev) = Cardinality({i \in 1..Len(before) : i \notin NotDue(before)})
    /\ {ev[j].key : j \in 1..Len(ev)} =
          {before[i].key : i \in (1..Len(before)) \ NotDue(before)}
    /\ \A j \in 1..Len(ev) :
          /\ ev[j].present /\ ev[j].ts = MapGet(before, ev[j].key).ts
          /\ \A l \in 1..(j - 1) : ev[l].ts <= ev[j].ts
    /\ curr' = SelectSeq(before, LAMBDA e : now - e.ts < timeLife)
    /\ IF curr' = <<>>
       THEN currKey' = Null /\ interval' = Null
            /\ \A i \in 1..Len(timers') : ~timers'[i].ref
       ELSE /\ MapHas(curr', currKey') /\ Armed(timers', currKey')
            /\ \A i \in 1..Len(curr') : MapGet(curr', currKey').ts <= curr'[i].ts

\* the store with the lastTouched of key reset to now
Touched(key) == [curr EXCEPT ![IndexOf(curr, key)].ts = now]

C24_LookupFrame ==
    [][\A key \in Keys, r \in BOOLEAN :
         (CallHas(key, r) \/ CallGet(key, r)) =>
            /\ CallHas(key, r) /\ ~MapHas(curr, key) => lastCall'.ret = "false"
            /\ ~r \/ ~MapHas(curr, key) => StoreUnchanged /\ emitted' = <<>>
            /\ r /\ MapHas(curr, key) /\ key # currKey =>
                  /\ curr' = Touched(key)
                  /\ UNCHANGED <<currKey, interval, timers>>
                  /\ emitted' = <<>>
            /\ timers' # timers => r /\ MapHas(curr, key) /\ key = currKey
      ]_vars

\* C24 witness: a lookup has just refreshed an entry that is not the current
\* key: its ts is now and the current key's is older
C24_Witness ==
    /\ lastCall.op \in {"has", "get"}
    /\ ~lastCall.isCurrKey
    /\ MapHas(curr, lastCall.key)
    /\ MapGet(curr, lastCall.key).ts = now
    /\ now > 0
    /\ currKey # Null /\ MapHas(curr, currKey)
    /\ MapGet(curr, currKey).ts < now

\* the listener acts on the event ev[j] and on none before it
FirstHandled(ev, j) ==
    /\ j \in 1..Len(ev)
    /\ listener.key # Null
    /\ listener.on \in {Null, ev[j].key}
    /\ \A l \in 1..(j - 1) : listener.on # Null /\ listener.on # ev[l].key

\* C25: when the listener, called for the expiration of some key, calls
\* delete(k2) on another key k2 that the store still holds, then in that
\* step k2 is removed, no expiration is emitted for k2 afterwards, k2 is not
\* the current key, and the timer is armed for the remaining entry of
\* smallest ts (nothing is armed when no entry remains).
C25_DeleteInHandler ==
    [][\A j \in 1..Len(emitted') :
         LET k2 == listener.key
         IN /\ FirstHandled(emitted', j)
            /\ emitted'[j].key # k2
            /\ MapHas(curr, k2)
            /\ \A l \in 1..(j - 1) : emitted'[l].key # k2
            /\ ~(lastCall'.op = "delete" /\ lastCall'.key = k2)
            => /\ ~MapHas(curr', k2)
               /\ \A l \in (j + 1)..Len(emitted') : emitted'[l].key # k2
               /\ currKey' # k2
               /\ IF curr' = <<>>
                  THEN currKey' = Null /\ \A i \in 1..Len(timers') : ~timers'[i].ref
                  ELSE /\ MapHas(curr', currKey') /\ Armed(timers', currKey')
                       /\ \A i \in 1..Len(curr') :
                             MapGet(curr', currKey').ts <= curr'[i].ts
      ]_vars

\* C26: whenever this[SymCurrKey] is set, the store holds an entry for it.
C26_CurrentKeyStored ==
    currKey # Null => MapHas(curr, currKey)
====
